---------------------------- MODULE Spec2Model ----------------------------
(***************************************************************************)
(* Model of app-cplusplus-rev01/process_load.cpp: a Qt main window with    *)
(* one button whose clicked() signal runs MainWindow::onSelectFile, which  *)
(* opens a modal file dialog and either warns (empty result) or logs the   *)
(* path and hands it, converted to std::string, to process_csv.            *)
(*                                                                         *)
(* A QString is a sequence of UTF-16 code units, a std::string a sequence  *)
(* of bytes; both are sequences of naturals here.                          *)
(***************************************************************************)
EXTENDS Naturals, Sequences, FiniteSets

\* Bounds of the model.
MaxClicks == 2      \* button clicks in one run
MaxLen == 2         \* code units in a path returned by the file dialog

\* The code units paths are drawn from: 'a' (ASCII), a high surrogate
\* (0xD83D) and a low surrogate (0xDE00); the two in this order are U+1F600.
CodeUnits == {97, 55357, 56832}

VARIABLES
    app,            \* "running" | "exited" (app.exec() returned) | "terminated"
    dialogs,        \* stack of open dialogs, innermost last
    window,         \* the MainWindow: geometry, button, title
    log,            \* lines written to qDebug, std::cout and std::cerr, in order
    calls,          \* the arguments process_csv has been invoked with, in order
    results,        \* what each returned file dialog returned, in order
    warnings,       \* number of QMessageBox::warning dialogs shown
    clicks,         \* number of button clicks delivered to onSelectFile
    files,          \* paths the program has opened
    bodyThrows      \* what the processing code inside process_csv's try raises

vars == <<app, dialogs, window, log, calls, results, warnings, clicks, files,
          bodyThrows>>

--------------------------------------------------------------------------
(* Strings *)

RECURSIVE SeqsUpTo(_, _)
SeqsUpTo(S, n) ==
    IF n = 0 THEN {<<>>}
    ELSE LET shorter == SeqsUpTo(S, n - 1)
         IN  shorter \cup {Append(s, x) : s \in {t \in shorter : Len(t) = n - 1}, x \in S}

\* What QFileDialog::getOpenFileName can return: the null (empty) QString on
\* cancel, otherwise the chosen path.
QStrings == SeqsUpTo(CodeUnits, MaxLen)

IsHighSurrogate(u) == u >= 55296 /\ u <= 56319
IsLowSurrogate(u) == u >= 56320 /\ u <= 57343
IsSurrogate(u) == IsHighSurrogate(u) \/ IsLowSurrogate(u)

\* UTF-8 bytes of one Unicode scalar value.
Utf8(cp) ==
    IF cp < 128 THEN <<cp>>
    ELSE IF cp < 2048 THEN <<192 + (cp \div 64), 128 + (cp % 64)>>
    ELSE IF cp < 65536
         THEN <<224 + (cp \div 4096), 128 + ((cp \div 64) % 64), 128 + (cp % 64)>>
    ELSE <<240 + (cp \div 262144), 128 + ((cp \div 4096) % 64),
           128 + ((cp \div 64) % 64), 128 + (cp % 64)>>

Drop(s, n) == SubSeq(s, n + 1, Len(s))

\* A conversion that stops at the first unit it cannot encode.
RECURSIVE toStdString_Truncating(_)
toStdString_Truncating(q) ==
    IF q = <<>> THEN <<>>
    ELSE IF Head(q) >= 128 THEN <<>>
    ELSE <<Head(q)>> \o toStdString_Truncating(Tail(q))

\* QString::toStdString(): toUtf8() into a std::string. A surrogate pair is
\* one scalar value; an unpaired surrogate cannot be encoded and toUtf8
\* writes '?' (63) in its place.
RECURSIVE toStdString(_)
toStdString(q) ==
    IF q = <<>> THEN <<>>
    ELSE IF /\ IsHighSurrogate(q[1])
            /\ Len(q) >= 2
            /\ IsLowSurrogate(q[2])
         THEN Utf8(65536 + (q[1] - 55296) * 1024 + (q[2] - 56320))
                \o toStdString(Drop(q, 2))
    ELSE IF IsSurrogate(q[1]) THEN <<63>> \o toStdString(Tail(q))
    ELSE Utf8(q[1]) \o toStdString(Tail(q))

\* The test inverted.
isEmpty_Inverted(q) == Len(q) # 0

\* The test dropped: every result is taken for a path.
isEmpty_Never(q) == FALSE

\* QString::isEmpty()
isEmpty(q) == Len(q) = 0

--------------------------------------------------------------------------
(* process_csv *)

ThrowKinds == {"none", "std_exception", "other"}

\* e.what() of a std::exception raised by the processing code.
What == <<119, 104, 97, 116>>

Line(sink, label, arg) == [sink |-> sink, label |-> label, arg |-> arg]

\* process_csv whose handler catches nothing the body raises.
process_csv_NoHandler(input_file, throws) ==
    [out     |-> <<Line("cout", "Processing file: ", input_file)>>,
     escaped |-> throws # "none",
     opened  |-> {}]

\* process_csv that opens its input for writing.
process_csv_Truncates(input_file, throws) ==
    [out     |-> <<Line("cout", "Processing file: ", input_file)>>,
     escaped |-> throws = "other",
     opened  |-> {input_file}]

\* process_csv that prints nothing.
process_csv_Silent(input_file, throws) ==
    [out     |-> <<>>,
     escaped |-> throws = "other",
     opened  |-> {}]

\* process_csv whose handler rethrows.
process_csv_Rethrows(input_file, throws) ==
    [out     |-> <<Line("cout", "Processing file: ", input_file)>>,
     escaped |-> TRUE,
     opened  |-> {}]

\* void process_csv(const std::string& input_file): the try block prints one
\* line and then runs the processing code, which raises `throws`; the handler
\* catches const std::exception& only. The result is what the call did: the
\* lines written, whether an exception left the function, the files opened.
process_csv(input_file, throws) ==
    LET printed == <<Line("cout", "Processing file: ", input_file)>>
    IN  [out     |-> IF throws = "std_exception"
                     THEN printed \o <<Line("cerr", "Error: ", What)>>
                     ELSE printed,
         escaped |-> throws = "other",
         opened  |-> {}]

--------------------------------------------------------------------------
(* MainWindow *)

Dialog(kind, modal) == [kind |-> kind, modal |-> modal]

OpenFileName_NonModal == Dialog("getOpenFileName", FALSE)

\* QFileDialog::getOpenFileName(this, ...): a modal dialog run in a nested
\* event loop; the call returns when the dialog is dismissed.
OpenFileName == Dialog("getOpenFileName", TRUE)

\* QMessageBox::warning(this, ...): a modal message box.
Warning == Dialog("warning", TRUE)

\* Input to the window is blocked while a modal dialog is open.
WindowBlocked == \E i \in DOMAIN dialogs : dialogs[i].modal

Top == dialogs[Len(dialogs)]
Pop == SubSeq(dialogs, 1, Len(dialogs) - 1)

\* The slot keeping the selected path in the window title.
windowAfterSelect_StoresPath(w, fileName) == [w EXCEPT !.title = fileName]

\* The window after onSelectFile's else branch: nothing of it is written.
windowAfterSelect(w, fileName) == w

\* The slot handing process_csv the first path ever selected.
processArg_Stale(fileName, earlier) ==
    LET chosen == SelectSeq(earlier, LAMBDA q : Len(q) > 0)
    IN  IF chosen = <<>> THEN toStdString(fileName) ELSE toStdString(chosen[1])

\* The argument of the process_csv call: fileName.toStdString(), fileName
\* being the local of this invocation of the slot. `earlier` is what earlier
\* invocations got from their dialogs; the slot keeps none of it.
processArg(fileName, earlier) == toStdString(fileName)

\* MainWindow(): resize(300, 100), one button, no title set.
MainWindowCtor ==
    [width |-> 300, height |-> 100, button |-> "Select CSV File", title |-> <<>>]

\* The state main() reaches at app.exec(): the window constructed and shown,
\* no dialog open, nothing written.
InitCommon ==
    /\ app = "running"
    /\ dialogs = <<>>
    /\ window = MainWindowCtor
    /\ log = <<>>
    /\ calls = <<>>
    /\ results = <<>>
    /\ warnings = 0
    /\ clicks = 0
    /\ files = {}

\* The program as it is: the processing code is a comment and raises nothing.
Init == InitCommon /\ bodyThrows = "none"

\* clicked() -> onSelectFile(), up to the point where getOpenFileName blocks.
Click ==
    /\ app = "running"
    /\ ~WindowBlocked
    /\ clicks < MaxClicks
    /\ clicks' = clicks + 1
    /\ dialogs' = Append(dialogs, OpenFileName)
    /\ UNCHANGED <<app, window, log, calls, results, warnings, files,
                   bodyThrows>>

\* getOpenFileName returns fileName; the rest of onSelectFile up to its end
\* or to the point where QMessageBox::warning blocks.
FileDialogReturn(fileName) ==
    /\ app = "running"
    /\ dialogs # <<>>
    /\ Top.kind = "getOpenFileName"
    /\ results' = Append(results, fileName)
    /\ IF isEmpty(fileName)
       THEN /\ dialogs' = Append(Pop, Warning)
            /\ warnings' = warnings + 1
            /\ UNCHANGED <<app, window, log, calls, files>>
       ELSE LET input_file == processArg(fileName, results)
                r == process_csv(input_file, bodyThrows)
            IN  /\ log' = log \o <<Line("qDebug", "Selected file:", fileName)>> \o r.out
                /\ calls' = Append(calls, input_file)
                /\ files' = files \cup r.opened
                /\ window' = windowAfterSelect(window, fileName)
                /\ app' = IF r.escaped THEN "terminated" ELSE app
                /\ dialogs' = IF r.escaped THEN <<>> ELSE Pop
                /\ UNCHANGED warnings
    /\ UNCHANGED <<clicks, bodyThrows>>

\* The user dismisses the warning; onSelectFile returns.
WarningDismiss ==
    /\ app = "running"
    /\ dialogs # <<>>
    /\ Top.kind = "warning"
    /\ dialogs' = Pop
    /\ UNCHANGED <<app, window, log, calls, results, warnings, clicks, files,
                   bodyThrows>>

\* The user closes the window: app.exec() returns and main() ends.
Close ==
    /\ app = "running"
    /\ ~WindowBlocked
    /\ dialogs = <<>>
    /\ app' = "exited"
    /\ UNCHANGED <<dialogs, window, log, calls, results, warnings, clicks, files,
                   bodyThrows>>

Next ==
    \/ Click
    \/ \E fileName \in QStrings : FileDialogReturn(fileName)
    \/ WarningDismiss
    \/ Close

Spec == Init /\ [][Next]_vars

\* The user eventually dismisses every dialog that is opened.
SpecLive ==
    /\ Spec
    /\ WF_vars(\E fileName \in QStrings : FileDialogReturn(fileName))
    /\ WF_vars(WarningDismiss)

\* process_csv called on its own with the string s.
CallProcessCsv(s) ==
    /\ app = "running"
    /\ Len(calls) < MaxClicks
    /\ LET r == process_csv(s, bodyThrows)
       IN  /\ calls' = Append(calls, s)
           /\ log' = log \o r.out
           /\ files' = files \cup r.opened
           /\ app' = IF r.escaped THEN "terminated" ELSE app
    /\ UNCHANGED <<dialogs, window, results, warnings, clicks, bodyThrows>>

\* Bytes the strings given to process_csv on its own are drawn from: '/',
\* 'a' and 0xFF, which no UTF-8 string holds.
StdBytes == {47, 97, 255}

StdStrings == SeqsUpTo(StdBytes, MaxLen)

NextStub == \E s \in StdStrings : CallProcessCsv(s)

SpecStub == Init /\ [][NextStub]_vars

\* The same window with processing code in process_csv that may raise.
InitFault == InitCommon /\ bodyThrows \in ThrowKinds

SpecFault == InitFault /\ [][Next]_vars

--------------------------------------------------------------------------
(* Claims *)

Last(seq) == seq[Len(seq)]

\* The paths selected so far and the cancellations so far, each in order.
Selected == SelectSeq(results, LAMBDA q : Len(q) > 0)
Cancelled == SelectSeq(results, LAMBDA q : Len(q) = 0)

\* No dialog is open and the event loop is running.
Idle == app = "running" /\ dialogs = <<>>

\* A step in which a file dialog returns an empty selection / a path.
ReturnsEmpty == Len(results') = Len(results) + 1 /\ Len(Last(results')) = 0
ReturnsPath == Len(results') = Len(results) + 1 /\ Len(Last(results')) > 0

\* The UTF-16 code units a UTF-8 byte string stands for (QString::fromUtf8 on
\* well-formed input): what path a std::string names.
RECURSIVE fromStdString(_)
fromStdString(b) ==
    IF b = <<>> THEN <<>>
    ELSE IF b[1] < 128 THEN <<b[1]>> \o fromStdString(Drop(b, 1))
    ELSE IF b[1] < 224
         THEN <<(b[1] - 192) * 64 + (b[2] - 128)>> \o fromStdString(Drop(b, 2))
    ELSE IF b[1] < 240
         THEN <<(b[1] - 224) * 4096 + (b[2] - 128) * 64 + (b[3] - 128)>>
                \o fromStdString(Drop(b, 3))
    ELSE LET cp == (b[1] - 240) * 262144 + (b[2] - 128) * 4096
                     + (b[3] - 128) * 64 + (b[4] - 128)
         IN  <<55296 + ((cp - 65536) \div 1024), 56320 + ((cp - 65536) % 1024)>>
                \o fromStdString(Drop(b, 4))

\* C1: a step in which the file dialog returns empty shows one warning
\* dialog, calls process_csv not at all and writes nothing; no other step
\* shows a warning.
C1_CancelWarnsOnce ==
    [][ /\ ReturnsEmpty => /\ warnings' = warnings + 1
                           /\ dialogs' = <<Warning>>
                           /\ calls' = calls
                           /\ log' = log
        /\ results' = results => warnings' = warnings ]_vars

\* The dialog of the first click was cancelled and the warning is up.
C1_Witness ==
    /\ results = <<<<>>>>
    /\ warnings = 1
    /\ calls = <<>>
    /\ dialogs = <<Warning>>

\* C2: a step in which the file dialog returns a path calls process_csv once,
\* with a string that names exactly that path, and shows no warning.
C2_ExactPathForwarded ==
    [][ ReturnsPath => /\ Len(calls') = Len(calls) + 1
                       /\ fromStdString(Last(calls')) = Last(results')
                       /\ warnings' = warnings
                       /\ dialogs' = <<>> ]_vars

\* C3: process_csv, called with any string, the empty one included, returns
\* to its caller and changes nothing but the console: one line is written, no
\* file is opened, window, dialogs and counters stay as they were.
C3_StubOnlyLogs ==
    [][ Len(calls') = Len(calls) + 1 =>
          /\ app' = "running"
          /\ log' = Append(log, Line("cout", "Processing file: ", Last(calls')))
          /\ files' = files
          /\ window' = window
          /\ dialogs' = dialogs
          /\ warnings' = warnings
          /\ results' = results
          /\ clicks' = clicks ]_vars

\* process_csv has returned from the empty string and from a non-empty one.
C3_Witness ==
    /\ app = "running"
    /\ Len(calls) = 2
    /\ calls[1] = <<>>
    /\ calls[2] = <<47, 255>>

\* The lines one process_csv call leaves when its body raises std::exception.
CaughtLines(input_file) ==
    <<Line("cout", "Processing file: ", input_file), Line("cerr", "Error: ", What)>>

\* C4 as stated: whatever the body of process_csv raises, once it has been
\* called the event loop is still running and the error's description is the
\* last line logged.
C4_AnyErrorCaught ==
    (calls # <<>> /\ bodyThrows # "none") =>
        /\ app # "terminated"
        /\ Last(log) = Line("cerr", "Error: ", What)

\* C4 amended: a std::exception raised by the body of process_csv is caught,
\* its what() logged after the call's own line, and the click ends as one
\* without an error does: event loop running, dialog closed, no warning.
C4_StdExceptionCaught ==
    [][ (bodyThrows = "std_exception" /\ Len(calls') = Len(calls) + 1) =>
          /\ app' = "running"
          /\ dialogs' = <<>>
          /\ warnings' = warnings
          /\ log' = log \o <<Line("qDebug", "Selected file:", Last(results'))>>
                        \o CaughtLines(Last(calls')) ]_vars

\* Two clicks were processed with a body raising std::exception.
C4_Witness ==
    /\ bodyThrows = "std_exception"
    /\ Len(calls) = 2
    /\ Idle
    /\ Len(log) = 6

\* C5: while a dialog is open no click reaches the slot, and at most one
\* dialog is open at any time.
C5_ModalOneDialog ==
    [][ /\ dialogs # <<>> => clicks' = clicks
        /\ Len(dialogs') <= 1 ]_vars

\* The warning of a second click is open.
C5_Witness == clicks = 2 /\ dialogs = <<Warning>> /\ Len(results) = 2

C8_ClickReturnsToIdle ==
    /\ (dialogs # <<>>) ~> Idle
    /\ [](Idle /\ clicks < MaxClicks => ENABLED Click)

\* A cancelled click and a processed click have both returned to idle.
C8_Witness == Idle /\ warnings >= 1 /\ Len(calls) >= 1

\* C9: a step that completes a click (its last dialog closes) leaves the
\* program as it was before the click: event loop running, no dialog, the
\* window as constructed, no file opened; and no step changes the window.
C9_NoStateKept ==
    [][ /\ (dialogs # <<>> /\ dialogs' = <<>>) =>
              /\ app' = "running"
              /\ window' = MainWindowCtor
              /\ files' = {}
        /\ window' = window ]_vars

\* Both kinds of click have completed and the window was then closed.
C9_Witness ==
    /\ app = "exited"
    /\ Len(Selected) = 1
    /\ Len(Cancelled) = 1
    /\ window = MainWindowCtor

\* C10: process_csv is never called with an empty path, and a returning
\* dialog leads to the warning exactly when its result is empty and to the
\* call exactly when it is not, never to both.
C10_WarningXorCall ==
    [][ /\ Len(calls') = Len(calls) + 1 => Last(calls') # <<>>
        /\ Len(results') = Len(results) + 1 =>
              /\ warnings' = warnings + 1 <=> Len(Last(results')) = 0
              /\ Len(calls') = Len(calls) + 1 <=> Len(Last(results')) > 0
              /\ warnings' = warnings \/ calls' = calls ]_vars

\* A one-unit path was processed after a cancellation.
C10_Witness ==
    /\ results = << <<>>, <<97>> >>
    /\ calls = << <<97>> >>
    /\ warnings = 1

=============================================================================
